---- MODULE Spec2Model ----
(***************************************************************************)
(* Model of src/index.js: the markdown-to-fact parser (parseMarkdownFile), *)
(* the facts pass (generateFactsJSON), the rules pass (generateRulesJSON)  *)
(* and the main script that runs the two passes one after the other.       *)
(*                                                                         *)
(* A JavaScript string is a sequence of one-character strings.  The fixed  *)
(* pieces of a serialized rule are kept as single multi-character tokens.  *)
(***************************************************************************)
EXTENDS Naturals, Sequences, FiniteSets, TLC

VARIABLES
    dir,        \* the markdown directory: the listing readdir returns, <<name, content>> pairs
    pc,         \* position of the main script
    files,      \* const files of the running pass
    i,          \* position of the for..of loop in files
    facts,      \* const facts of generateFactsJSON
    rules,      \* const rules (a Set, in insertion order) of generateRulesJSON
    factsFile,  \* content of ./facts.json
    rulesFile,  \* content of ./rules.json
    factsLog,   \* what the facts pass of this run logged
    rulesLog,   \* what the rules pass of this run logged
    run,        \* number of the execution of the script
    prevOut,    \* the output files at the end of the previous execution, and whether it succeeded
    text,       \* parser specification: content of the file read
    fname,      \* parser specification: name of the file read
    parsed      \* parser specification: what parseMarkdownFile returned

vars == <<dir, pc, files, i, facts, rules, factsFile, rulesFile, factsLog,
          rulesLog, run, prevOut, text, fname, parsed>>

-----------------------------------------------------------------------------
(* Bounds *)

MaxLen == 5
MaxFiles == 2
MaxRuns == 2

-----------------------------------------------------------------------------
(* JavaScript string primitives *)

WhiteSpace == {" ", "\t", "\n", "\r", "\f"}

WordChars ==
    {"a","b","c","d","e","f","g","h","i","j","k","l","m","n","o","p","q","r",
     "s","t","u","v","w","x","y","z",
     "A","B","C","D","E","F","G","H","I","J","K","L","M","N","O","P","Q","R",
     "S","T","U","V","W","X","Y","Z",
     "0","1","2","3","4","5","6","7","8","9","_"}

\* s.startsWith(p)
StartsWith(s, p) ==
    /\ Len(s) >= Len(p)
    /\ SubSeq(s, 1, Len(p)) = p

\* s.slice(n)
Slice(s, n) == SubSeq(s, n + 1, Len(s))

RECURSIVE TrimStart(_)
TrimStart(s) ==
    IF s # <<>> /\ Head(s) \in WhiteSpace THEN TrimStart(Tail(s)) ELSE s

RECURSIVE TrimEnd(_)
TrimEnd(s) ==
    IF s # <<>> /\ s[Len(s)] \in WhiteSpace
    THEN TrimEnd(SubSeq(s, 1, Len(s) - 1))
    ELSE s

\* s.trim()
Trim(s) == TrimEnd(TrimStart(s))

\* s.split(sep) for a one-character separator: never empty, "" gives [""]
RECURSIVE SplitFrom(_, _, _)
SplitFrom(s, sep, cur) ==
    IF s = <<>> THEN <<cur>>
    ELSE IF Head(s) = sep THEN <<cur>> \o SplitFrom(Tail(s), sep, <<>>)
    ELSE SplitFrom(Tail(s), sep, Append(cur, Head(s)))

Split(s, sep) == SplitFrom(s, sep, <<>>)

\* parts.join(sep)
RECURSIVE Join(_, _)
Join(parts, sep) ==
    IF parts = <<>> THEN <<>>
    ELSE IF Len(parts) = 1 THEN parts[1]
    ELSE parts[1] \o <<sep>> \o Join(Tail(parts), sep)

\* arr.includes(x)
Includes(arr, x) == \E k \in 1..Len(arr) : arr[k] = x

\* Array.from(new Set(arr)): first occurrences, in order
RECURSIVE UniqueFrom(_, _)
UniqueFrom(arr, acc) ==
    IF arr = <<>> THEN acc
    ELSE UniqueFrom(Tail(arr),
                    IF Includes(acc, Head(arr)) THEN acc ELSE Append(acc, Head(arr)))

Unique(arr) == UniqueFrom(arr, <<>>)

\* arr.map(tag => tag.trim())
MapTrim(arr) == [k \in 1..Len(arr) |-> Trim(arr[k])]

\* the longest run of word characters at the start of s
RECURSIVE WordRun(_)
WordRun(s) ==
    IF s # <<>> /\ Head(s) \in WordChars THEN <<Head(s)>> \o WordRun(Tail(s)) ELSE <<>>

\* [...content.matchAll(/#(\w+)/g)].map(match => match[1])
RECURSIVE InlineTags(_)
InlineTags(s) ==
    IF s = <<>> THEN <<>>
    ELSE IF Head(s) = "#" /\ WordRun(Tail(s)) # <<>>
         THEN <<WordRun(Tail(s))>> \o InlineTags(Slice(s, 1 + Len(WordRun(Tail(s)))))
         ELSE InlineTags(Tail(s))

\* the for loop over lines pushing the pieces of every '- ' line
RECURSIVE BulletTags(_)
BulletTags(lines) ==
    IF lines = <<>> THEN <<>>
    ELSE (IF StartsWith(Head(lines), <<"-", " ">>)
          THEN MapTrim(Split(Slice(Head(lines), 2), "-"))
          ELSE <<>>) \o BulletTags(Tail(lines))

\* path.extname(file)
RECURSIVE LastDot(_)
LastDot(s) ==
    IF s = <<>> THEN 0
    ELSE IF s[Len(s)] = "." THEN Len(s)
    ELSE LastDot(SubSeq(s, 1, Len(s) - 1))

ExtName(file) ==
    IF LastDot(file) <= 1 THEN <<>> ELSE Slice(file, LastDot(file) - 1)

DotMd == <<".", "m", "d">>

\* path.basename(filePath, '.md')
BaseName(file) ==
    IF Len(file) > Len(DotMd) /\ Slice(file, Len(file) - Len(DotMd)) = DotMd
    THEN SubSeq(file, 1, Len(file) - Len(DotMd))
    ELSE file

\* marked.parse(content): the library's rendering, a function of the content alone
Marked(content) == <<"marked.parse">> \o content

-----------------------------------------------------------------------------
(* parseMarkdownFile *)

HasHeader(lines) == StartsWith(lines[1], <<"#", " ">>)

HeaderTitle(lines) == Trim(Slice(lines[1], 2))

\* the title with the fallback taken only when no header line was found
TitleOf_nullOnly(file, lines) ==
    IF HasHeader(lines) THEN HeaderTitle(lines) ELSE BaseName(file)

\* the tags without the removal of duplicates
TagsOf_noSet(content, lines) ==
    MapTrim(BulletTags(lines) \o InlineTags(content))

\* the title after lines 16-29: null and "" are both falsy
TitleOf(file, lines) ==
    IF HasHeader(lines) /\ HeaderTitle(lines) # <<>>
    THEN HeaderTitle(lines)
    ELSE BaseName(file)

BodyOf(content, lines) ==
    IF HasHeader(lines) THEN Join(Tail(lines), "\n") ELSE content

TagsOf(content, lines) ==
    Unique(MapTrim(BulletTags(lines) \o InlineTags(content)))

parseMarkdownFile(file, content) ==
    LET lines == Split(content, "\n")
    IN [title |-> TitleOf(file, lines),
        body |-> BodyOf(content, lines),
        tags |-> TagsOf(content, lines),
        htmlContent |-> Marked(content)]

-----------------------------------------------------------------------------
(* JSON.stringify and JSON.parse of a rule *)

\* the quoting JSON.stringify applies to the characters of a string
RECURSIVE Esc(_)
Esc(s) ==
    IF s = <<>> THEN <<>>
    ELSE (CASE Head(s) = "\"" -> <<"\\", "\"">>
            [] Head(s) = "\\" -> <<"\\", "\\">>
            [] Head(s) = "\n" -> <<"\\", "n">>
            [] Head(s) = "\t" -> <<"\\", "t">>
            [] Head(s) = "\r" -> <<"\\", "r">>
            [] Head(s) = "\f" -> <<"\\", "f">>
            [] OTHER -> <<Head(s)>>) \o Esc(Tail(s))

\* the reading JSON.parse applies to the characters of a quoted string
RECURSIVE Unesc(_)
Unesc(s) ==
    IF s = <<>> THEN <<>>
    ELSE IF Head(s) = "\\" /\ Len(s) >= 2
         THEN (CASE s[2] = "n" -> <<"\n">>
                 [] s[2] = "t" -> <<"\t">>
                 [] s[2] = "r" -> <<"\r">>
                 [] s[2] = "f" -> <<"\f">>
                 [] OTHER -> <<s[2]>>) \o Unesc(Slice(s, 2))
         ELSE <<Head(s)>> \o Unesc(Tail(s))

TagOpen == "{\"conditions\":{\"in\":[\""
TagMid == "\",{\"var\":\"tags\"}]},\"event\":{\"type\":\"tagMatch\",\"params\":{\"message\":\"Matched tag: "
BodyOpen == "{\"conditions\":{\"==\":[{\"var\":\"body\"},\""
BodyMid == "\"]},\"event\":{\"type\":\"bodyMatch\",\"params\":{\"message\":\"Matched body content\",\"title\":\""
TitleKey == "\",\"title\":\""
BodyKey == "\",\"body\":\""
Close == "\"}}}"

\* the object literal of lines 100-110
TagRule(tag, fact) ==
    [conditions |-> [in |-> <<tag, "var:tags">>],
     event |-> [type |-> "tagMatch",
                params |-> [message |-> <<"Matched tag: ">> \o tag,
                            title |-> fact.title,
                            body |-> fact.body]]]

\* the object literal of lines 118-128
BodyRule(fact) ==
    [conditions |-> [eq |-> <<"var:body", fact.body>>],
     event |-> [type |-> "bodyMatch",
                params |-> [message |-> <<"Matched body content">>,
                            title |-> fact.title,
                            body |-> fact.body]]]

\* JSON.stringify(rule): keys in the order of the literal, no spaces
Stringify(rule) ==
    IF rule.event.type = "tagMatch"
    THEN <<TagOpen>> \o Esc(rule.conditions.in[1]) \o <<TagMid>>
         \o Esc(Slice(rule.event.params.message, 1)) \o <<TitleKey>>
         \o Esc(rule.event.params.title) \o <<BodyKey>>
         \o Esc(rule.event.params.body) \o <<Close>>
    ELSE <<BodyOpen>> \o Esc(rule.conditions.eq[2]) \o <<BodyMid>>
         \o Esc(rule.event.params.title) \o <<BodyKey>>
         \o Esc(rule.event.params.body) \o <<Close>>

\* the quoted strings of a serialized rule, in order: what lies between its
\* multi-character tokens
RECURSIVE FieldsFrom(_, _)
FieldsFrom(s, cur) ==
    IF s = <<>> THEN <<>>
    ELSE IF Head(s) \in {TagMid, BodyMid, TitleKey, BodyKey, Close}
         THEN <<Unesc(cur)>> \o FieldsFrom(Tail(s), <<>>)
         ELSE FieldsFrom(Tail(s), Append(cur, Head(s)))

Fields(s) == FieldsFrom(Tail(s), <<>>)

\* JSON.parse(rule)
Parse(s) ==
    LET f == Fields(s)
    IN IF Head(s) = TagOpen
       THEN [conditions |-> [in |-> <<f[1], "var:tags">>],
             event |-> [type |-> "tagMatch",
                        params |-> [message |-> <<"Matched tag: ">> \o f[2],
                                    title |-> f[3],
                                    body |-> f[4]]]]
       ELSE [conditions |-> [eq |-> <<"var:body", f[1]>>],
             event |-> [type |-> "bodyMatch",
                        params |-> [message |-> <<"Matched body content">>,
                                    title |-> f[2],
                                    body |-> f[3]]]]

\* an array in place of the Set: every key is pushed
SetAdd_push(set, key) == Append(set, key)

\* a Set keyed by the conditions alone
SetAdd_byConditions(set, key) ==
    IF \E k \in 1..Len(set) : Head(set[k]) = Head(key) /\ Fields(set[k])[1] = Fields(key)[1]
    THEN set ELSE Append(set, key)

\* rules.has(key) / rules.add(key): a Set keeps insertion order
SetAdd(set, key) == IF Includes(set, key) THEN set ELSE Append(set, key)

\* const ruleKey of lines 100-110, for every tag of fact.tags
TagRuleKeys(fact) == [p \in 1..Len(fact.tags) |-> Stringify(TagRule(fact.tags[p], fact))]

\* const bodyRuleKey of lines 118-128
BodyRuleKey(fact) == Stringify(BodyRule(fact))

\* fact.tags.forEach(tag => ...), lines 99-115: lines 112-114 for every key
RECURSIVE AddTagRules(_, _)
AddTagRules(set, keys) ==
    IF keys = <<>> THEN set
    ELSE AddTagRules(SetAdd(set, Head(keys)), Tail(keys))

\* the body rule put in front of the rules already made
AddBodyRule_first(set, key) ==
    IF Includes(set, key) THEN set ELSE <<key>> \o set

\* lines 130-132
AddBodyRule(set, key) == SetAdd(set, key)

Unfinished == <<"U", "N", "F", "I", "N", "I", "S", "H", "E", "D">>

\* the test left out
Excluded_never(fact) == FALSE

\* the negation of the test of lines 68 and 97
Excluded(fact) == Includes(fact.tags, Unfinished)

\* [...rules].map(rule => JSON.parse(rule))
ParseAll(set) == [k \in 1..Len(set) |-> Parse(set[k])]

-----------------------------------------------------------------------------
(* The file system: the markdown directory and the two output files *)

NameA == <<"a", ".", "m", "d">>
NameB == <<"b", ".", "m", "d">>
NameC == <<"c", ".", "t", "x", "t">>
Names == {NameA, NameB, NameC}

\* "# T\n#x": a header, one inline tag
DocHeader == <<"#", " ", "T", "\n", "#", "x">>
\* "#x": no header, the body of DocHeader
DocPlain == <<"#", "x">>
\* "# T\n- y - x": a header, one bullet line with two tags
DocBullets == <<"#", " ", "T", "\n", "-", " ", "y", " ", "-", " ", "x">>
\* "#x\n#UNFINISHED": marked as not ready
DocUnfinished == <<"#", "x", "\n", "#"  >> \o Unfinished
Docs == {DocHeader, DocPlain, DocBullets, DocUnfinished}

\* every .md file holds one of Docs; c.txt, which no pass reads, holds one text
Entries == {e \in [name : Names, content : Docs] : e.name = NameC => e.content = DocPlain}

\* the listings of at most MaxFiles entries with distinct names, in any order
Dirs ==
    {d \in UNION {[1..n -> Entries] : n \in 0..MaxFiles} :
        \A j, k \in 1..Len(d) : j # k => d[j].name # d[k].name}

\* content of an output file
Old == [state |-> "old", data |-> <<>>]
Written(data) == [state |-> "written", data |-> data]
Truncated == [state |-> "truncated", data |-> <<>>]

\* what a failed fs.writeFile may leave behind
AfterFailedWrite(file) == {file, Truncated}

\* await fs.readdir(markdownDir)
Readdir(d) == [k \in 1..Len(d) |-> d[k].name]

\* await fs.readFile(filePath, 'utf-8')
ReadFile(d, k) == d[k].content

\* await parseMarkdownFile(filePath), for every file the directory may hold
ParsedFile == [file \in Names, content \in Docs |-> parseMarkdownFile(file, content)]

\* the keys the rules pass makes for a parsed file
KeysOfFile ==
    [file \in Names, content \in Docs |->
        [tagKeys |-> TagRuleKeys(ParsedFile[file, content]),
         bodyKey |-> BodyRuleKey(ParsedFile[file, content])]]

\* path.extname(file) === '.md'
IsMd(file) == ExtName(file) = DotMd

NoOut == [ok |-> FALSE, factsFile |-> Old, rulesFile |-> Old]

NoParse == [title |-> <<>>, body |-> <<>>, tags |-> <<>>, htmlContent |-> <<>>]

Init ==
    /\ dir \in Dirs
    /\ pc = "facts_readdir"
    /\ files = <<>>
    /\ i = 0
    /\ facts = <<>>
    /\ rules = <<>>
    /\ factsFile = Old
    /\ rulesFile = Old
    /\ factsLog = ""
    /\ rulesLog = ""
    /\ run = 1
    /\ prevOut = NoOut
    /\ text = <<>>
    /\ fname = <<>>
    /\ parsed = NoParse

fsVars == <<dir, run, prevOut, text, fname, parsed>>

-----------------------------------------------------------------------------
(* generateFactsJSON *)

\* the facts taken up from the file of the last execution
FactsReaddir_append ==
    /\ pc = "facts_readdir"
    /\ files' = Readdir(dir)
    /\ facts' = factsFile.data
    /\ i' = 1
    /\ pc' = "facts_loop"
    /\ UNCHANGED <<rules, factsFile, rulesFile, factsLog, rulesLog, fsVars>>

\* lines 59-60
FactsReaddir ==
    /\ pc = "facts_readdir"
    /\ files' = Readdir(dir)
    /\ facts' = <<>>
    /\ i' = 1
    /\ pc' = "facts_loop"
    /\ UNCHANGED <<rules, factsFile, rulesFile, factsLog, rulesLog, fsVars>>

\* line 59 throws, lines 76-78
FactsReaddirFails ==
    /\ pc = "facts_readdir"
    /\ factsLog' = "readdir failed"
    /\ pc' = "rules_readdir"
    /\ UNCHANGED <<files, i, facts, rules, factsFile, rulesFile, rulesLog, fsVars>>

\* line 63, the test fails
FactsSkip ==
    /\ pc = "facts_loop"
    /\ i <= Len(files)
    /\ ~IsMd(files[i])
    /\ i' = i + 1
    /\ UNCHANGED <<pc, files, facts, rules, factsFile, rulesFile, factsLog, rulesLog, fsVars>>

\* lines 63-71
FactsParse ==
    /\ pc = "facts_loop"
    /\ i <= Len(files)
    /\ IsMd(files[i])
    /\ LET fact == ParsedFile[files[i], ReadFile(dir, i)]
       IN facts' = IF Excluded(fact) THEN facts ELSE Append(facts, fact)
    /\ i' = i + 1
    /\ UNCHANGED <<pc, files, rules, factsFile, rulesFile, factsLog, rulesLog, fsVars>>

\* the facts read so far written out when a read fails
FactsReadFails_partialWrite ==
    /\ pc = "facts_loop"
    /\ i <= Len(files)
    /\ IsMd(files[i])
    /\ factsFile' = Written(facts)
    /\ factsLog' = "read failed"
    /\ pc' = "rules_readdir"
    /\ UNCHANGED <<files, i, facts, rules, rulesFile, rulesLog, fsVars>>

\* the error thrown on to the main script, whose catch ends the execution
FactsReadFails_rethrow ==
    /\ pc = "facts_loop"
    /\ i <= Len(files)
    /\ IsMd(files[i])
    /\ factsLog' = "read failed"
    /\ pc' = "done"
    /\ UNCHANGED <<files, i, facts, rules, factsFile, rulesFile, rulesLog, fsVars>>

\* line 65 throws (lines 46-49), lines 76-78
FactsReadFails ==
    /\ pc = "facts_loop"
    /\ i <= Len(files)
    /\ IsMd(files[i])
    /\ factsLog' = "read failed"
    /\ pc' = "rules_readdir"
    /\ UNCHANGED <<files, i, facts, rules, factsFile, rulesFile, rulesLog, fsVars>>

\* lines 74-75
FactsWrite ==
    /\ pc = "facts_loop"
    /\ i > Len(files)
    /\ factsFile' = Written(facts)
    /\ factsLog' = "generated"
    /\ pc' = "rules_readdir"
    /\ UNCHANGED <<files, i, facts, rules, rulesFile, rulesLog, fsVars>>

\* line 74 throws, lines 76-78
FactsWriteFails ==
    /\ pc = "facts_loop"
    /\ i > Len(files)
    /\ factsFile' \in AfterFailedWrite(factsFile)
    /\ factsLog' = "write failed"
    /\ pc' = "rules_readdir"
    /\ UNCHANGED <<files, i, facts, rules, rulesFile, rulesLog, fsVars>>

-----------------------------------------------------------------------------
(* generateRulesJSON *)

\* lines 88-89
RulesReaddir ==
    /\ pc = "rules_readdir"
    /\ files' = Readdir(dir)
    /\ rules' = <<>>
    /\ i' = 1
    /\ pc' = "rules_loop"
    /\ UNCHANGED <<facts, factsFile, rulesFile, factsLog, rulesLog, fsVars>>

\* line 88 throws, lines 140-142
RulesReaddirFails ==
    /\ pc = "rules_readdir"
    /\ rulesLog' = "readdir failed"
    /\ pc' = "done"
    /\ UNCHANGED <<files, i, facts, rules, factsFile, rulesFile, factsLog, fsVars>>

\* line 92, the test fails
RulesSkip ==
    /\ pc = "rules_loop"
    /\ i <= Len(files)
    /\ ~IsMd(files[i])
    /\ i' = i + 1
    /\ UNCHANGED <<pc, files, facts, rules, factsFile, rulesFile, factsLog, rulesLog, fsVars>>

\* lines 92-134
RulesParse ==
    /\ pc = "rules_loop"
    /\ i <= Len(files)
    /\ IsMd(files[i])
    /\ LET fact == ParsedFile[files[i], ReadFile(dir, i)]
           keys == KeysOfFile[files[i], ReadFile(dir, i)]
       IN rules' = IF Excluded(fact) THEN rules
                   ELSE AddBodyRule(AddTagRules(rules, keys.tagKeys), keys.bodyKey)
    /\ i' = i + 1
    /\ UNCHANGED <<pc, files, facts, factsFile, rulesFile, factsLog, rulesLog, fsVars>>

\* line 94 throws (lines 46-49), lines 140-142
RulesReadFails ==
    /\ pc = "rules_loop"
    /\ i <= Len(files)
    /\ IsMd(files[i])
    /\ rulesLog' = "read failed"
    /\ pc' = "done"
    /\ UNCHANGED <<files, i, facts, rules, factsFile, rulesFile, factsLog, fsVars>>

\* lines 138-139
RulesWrite ==
    /\ pc = "rules_loop"
    /\ i > Len(files)
    /\ rulesFile' = Written(ParseAll(rules))
    /\ rulesLog' = "generated"
    /\ pc' = "done"
    /\ UNCHANGED <<files, i, facts, rules, factsFile, factsLog, fsVars>>

\* line 138 throws, lines 140-142
RulesWriteFails ==
    /\ pc = "rules_loop"
    /\ i > Len(files)
    /\ rulesFile' \in AfterFailedWrite(rulesFile)
    /\ rulesLog' = "write failed"
    /\ pc' = "done"
    /\ UNCHANGED <<files, i, facts, rules, factsFile, factsLog, fsVars>>

-----------------------------------------------------------------------------
(* The main script, lines 151-158, and its next execution *)

\* both passes of this execution logged their "generated" line
Succeeded == factsLog = "generated" /\ rulesLog = "generated"

\* the process ends and the script is started again on the same directory:
\* nothing in memory survives, the two output files do
Rerun ==
    /\ pc = "done"
    /\ run < MaxRuns
    /\ run' = run + 1
    /\ prevOut' = [ok |-> Succeeded, factsFile |-> factsFile, rulesFile |-> rulesFile]
    /\ files' = <<>>
    /\ i' = 0
    /\ facts' = <<>>
    /\ rules' = <<>>
    /\ factsLog' = ""
    /\ rulesLog' = ""
    /\ pc' = "facts_readdir"
    /\ UNCHANGED <<dir, factsFile, rulesFile, text, fname, parsed>>

FactsPass ==
    \/ FactsReaddir \/ FactsReaddirFails \/ FactsSkip \/ FactsParse
    \/ FactsReadFails \/ FactsWrite \/ FactsWriteFails

RulesPass ==
    \/ RulesReaddir \/ RulesReaddirFails \/ RulesSkip \/ RulesParse
    \/ RulesReadFails \/ RulesWrite \/ RulesWriteFails

Script == FactsPass \/ RulesPass

Next == Script \/ Rerun

Spec == Init /\ [][Next]_vars

\* every await of the script settles
FairSpec == Spec /\ WF_vars(Script)

-----------------------------------------------------------------------------
(* parseMarkdownFile on its own: every short text over Alphabet, and the   *)
(* texts of the examples                                                     *)

Alphabet == {"#", " ", "-", "\n", "a", "b"}

\* "- a - b\n#b #c"
DocExample == <<"-", " ", "a", " ", "-", " ", "b", "\n", "#", "b", " ", "#", "c">>

Texts == UNION {[1..n -> Alphabet] : n \in 0..MaxLen} \cup Docs \cup {DocExample}

InitParse ==
    /\ text \in Texts
    /\ fname \in {NameA, NameB}
    /\ parsed = NoParse
    /\ pc = "parse"
    /\ dir = <<>>
    /\ files = <<>>
    /\ i = 0
    /\ facts = <<>>
    /\ rules = <<>>
    /\ factsFile = Old
    /\ rulesFile = Old
    /\ factsLog = ""
    /\ rulesLog = ""
    /\ run = 1
    /\ prevOut = NoOut

\* lines 10-45, the read succeeding
ParseFile ==
    /\ pc = "parse"
    /\ parsed' = parseMarkdownFile(fname, text)
    /\ pc' = "parsed"
    /\ UNCHANGED <<dir, files, i, facts, rules, factsFile, rulesFile, factsLog,
                   rulesLog, run, prevOut, text, fname>>

NextParse == ParseFile

SpecParse == InitParse /\ [][NextParse]_vars

-----------------------------------------------------------------------------
(* Claims about parseMarkdownFile, checked under SpecParse *)

\* the text before the first newline
RECURSIVE FirstLine(_)
FirstLine(t) ==
    IF t = <<>> \/ Head(t) = "\n" THEN <<>> ELSE <<Head(t)>> \o FirstLine(Tail(t))

\* the text after the first newline, empty when there is none
AfterFirstLine(t) ==
    IF Len(FirstLine(t)) = Len(t) THEN <<>> ELSE Slice(t, Len(FirstLine(t)) + 1)

HeaderFirst(t) == StartsWith(FirstLine(t), <<"#", " ">>)

HeaderRest(t) == Trim(Slice(FirstLine(t), 2))

\* C5 as stated: for every text whose first line starts with "# ", the title
\* is the rest of that line trimmed, also when that rest is empty or only
\* whitespace, and the body is what follows the first line.
C5_TitleIsTrimmedRest ==
    (pc = "parsed" /\ HeaderFirst(text)) =>
        /\ parsed.title = HeaderRest(text)
        /\ parsed.body = AfterFirstLine(text)

\* C5 amended: for every text whose first line starts with "# ", the title is
\* the rest of that line trimmed when that is not empty and the file's base
\* name otherwise, and the body is what follows the first line in both cases.
C5_TitleIsTrimmedRestOrBaseName ==
    (pc = "parsed" /\ HeaderFirst(text)) =>
        /\ HeaderRest(text) # <<>> => parsed.title = HeaderRest(text)
        /\ HeaderRest(text) = <<>> =>
               parsed.title = SubSeq(fname, 1, Len(fname) - 3)
        /\ parsed.body = AfterFirstLine(text)

\* a header line with only whitespace after the marker, followed by a body
C5_Witness ==
    /\ pc = "parsed"
    /\ text = <<"#", " ", " ", "\n", "a">>
    /\ fname = NameB
    /\ parsed.title = <<"b">>
    /\ parsed.body = <<"a">>

\* position of the first occurrence of x in seq
FirstIdx(seq, x) ==
    CHOOSE p \in 1..Len(seq) : seq[p] = x /\ \A q \in 1..(p - 1) : seq[q] # x

\* the candidates: the trimmed pieces of the bullet lines, then the inline captures
Candidates(t) == MapTrim(BulletTags(Split(t, "\n"))) \o InlineTags(t)

\* C6: the tags are the bullet candidates followed by the inline captures with
\* every later duplicate removed and first-occurrence order kept; no two tags
\* are equal; "- a - b\n#b #c" gives exactly ["a","b","c"].
C6_TagsOrderedAndUnique ==
    pc = "parsed" =>
        /\ \A p, q \in 1..Len(parsed.tags) : p # q => parsed.tags[p] # parsed.tags[q]
        /\ {parsed.tags[p] : p \in 1..Len(parsed.tags)}
               = {Candidates(text)[p] : p \in 1..Len(Candidates(text))}
        /\ \A p, q \in 1..Len(parsed.tags) :
               p < q => FirstIdx(Candidates(text), parsed.tags[p])
                            < FirstIdx(Candidates(text), parsed.tags[q])
        /\ text = DocExample => parsed.tags = << <<"a">>, <<"b">>, <<"c">> >>

\* the example: "b" is a bullet tag and an inline tag, and is kept once
C6_Witness ==
    /\ pc = "parsed"
    /\ text = DocExample
    /\ Len(Candidates(text)) = 4
    /\ parsed.tags = << <<"a">>, <<"b">>, <<"c">> >>

-----------------------------------------------------------------------------
(* Claims about the two passes, checked under Spec *)

\* the document of the k-th directory entry, as parsed
DocFact(k) == parseMarkdownFile(dir[k].name, dir[k].content)

MdEntry(k) == Len(dir[k].name) > 3 /\ Slice(dir[k].name, Len(dir[k].name) - 3) = DotMd

HasUnfinished(k) == \E p \in 1..Len(DocFact(k).tags) : DocFact(k).tags[p] = Unfinished

\* the entries that are documents and are not marked UNFINISHED
Kept == {k \in 1..Len(dir) : MdEntry(k) /\ ~HasUnfinished(k)}

InLoop == pc \in {"facts_loop", "rules_loop"} /\ i <= Len(files)

Elems(seq) == {seq[p] : p \in 1..Len(seq)}

\* C1: a document whose tags contain "UNFINISHED" adds nothing to the facts
\* and nothing to the rule set when it is processed; no written fact has the
\* tag and every written rule carries the title and body of a kept document.
C1_UnfinishedContributesNothing ==
    /\ [][(InLoop /\ MdEntry(i) /\ HasUnfinished(i)) => (facts' = facts /\ rules' = rules)]_vars
    /\ [](\A f \in Elems(facts) \cup Elems(factsFile.data) : Unfinished \notin Elems(f.tags))
    /\ [](\A r \in Elems(ParseAll(rules)) \cup Elems(rulesFile.data) :
              \E k \in Kept : /\ r.event.params.title = DocFact(k).title
                              /\ r.event.params.body = DocFact(k).body)

\* both passes have written their output with an UNFINISHED document in the directory
C1_Witness ==
    /\ pc = "done"
    /\ Succeeded
    /\ \E k \in 1..Len(dir) : MdEntry(k) /\ HasUnfinished(k)
    /\ Len(factsFile.data) = 1
    /\ Len(rulesFile.data) = 2

\* C2: the rule set never holds two equal serializations, the written array
\* never holds two rules with the same serialization, and two kept documents
\* with the same title, the same body and a shared tag give one tag-match
\* rule for that tag.
C2_NoDuplicateRules ==
    /\ \A p, q \in 1..Len(rules) : p # q => rules[p] # rules[q]
    /\ \A p, q \in 1..Len(rulesFile.data) :
           p # q => Stringify(rulesFile.data[p]) # Stringify(rulesFile.data[q])
    /\ rulesFile.state = "written" =>
           \A j, k \in Kept :
               (j # k /\ DocFact(j).title = DocFact(k).title
                      /\ DocFact(j).body = DocFact(k).body) =>
                   \A t \in Elems(DocFact(j).tags) \cap Elems(DocFact(k).tags) :
                       Cardinality({p \in 1..Len(rulesFile.data) :
                                       rulesFile.data[p] = TagRule(t, DocFact(j))}) = 1

\* two files with the same header, body and tag, and the rules written
C2_Witness ==
    /\ rulesFile.state = "written"
    /\ \E j, k \in Kept :
           /\ j # k
           /\ DocFact(j).title = DocFact(k).title
           /\ DocFact(j).body = DocFact(k).body
           /\ DocFact(j).tags # <<>>
    /\ Len(rulesFile.data) = 2

\* C3: two kept documents that share a tag and differ in title or body give
\* two distinct tag-match rules for that tag in the written rules, one with
\* each document's title and body.
C3_DistinctParamsKept ==
    rulesFile.state = "written" =>
        \A j, k \in Kept :
            (DocFact(j).title # DocFact(k).title \/ DocFact(j).body # DocFact(k).body) =>
                \A t \in Elems(DocFact(j).tags) \cap Elems(DocFact(k).tags) :
                    \E p, q \in 1..Len(rulesFile.data) :
                        /\ p # q
                        /\ rulesFile.data[p] = TagRule(t, DocFact(j))
                        /\ rulesFile.data[q] = TagRule(t, DocFact(k))

\* two files with the same text and no header: same body, same tag, two titles
C3_Witness ==
    /\ rulesFile.state = "written"
    /\ Kept = {1, 2}
    /\ DocFact(1).body = DocFact(2).body
    /\ DocFact(1).title # DocFact(2).title
    /\ Elems(DocFact(1).tags) \cap Elems(DocFact(2).tags) # {}
    /\ Len(rulesFile.data) = 4

BodyMatchRules == {p \in 1..Len(rulesFile.data) : rulesFile.data[p].event.type = "bodyMatch"}

\* C4 as stated: the written rules hold one body-match rule per distinct
\* body among the kept documents, whatever their titles.
C4_OneBodyRulePerBody ==
    rulesFile.state = "written" =>
        Cardinality(BodyMatchRules) = Cardinality({DocFact(k).body : k \in Kept})

\* C4 amended: the written rules hold one body-match rule per distinct pair
\* of title and body among the kept documents.
C4_OneBodyRulePerTitleAndBody ==
    rulesFile.state = "written" =>
        Cardinality(BodyMatchRules)
            = Cardinality({<<DocFact(k).title, DocFact(k).body>> : k \in Kept})

\* the same text in two files without a header: one body under two titles
C4_Witness ==
    /\ rulesFile.state = "written"
    /\ Kept = {1, 2}
    /\ DocFact(1).body = DocFact(2).body
    /\ DocFact(1).title # DocFact(2).title
    /\ Cardinality(BodyMatchRules) = 2

\* the facts of the kept documents among the first n entries, in listing order
RECURSIVE FactsUpTo(_)
FactsUpTo(n) ==
    IF n = 0 THEN <<>>
    ELSE IF n \in Kept THEN Append(FactsUpTo(n - 1), DocFact(n)) ELSE FactsUpTo(n - 1)

\* the rules of one document in the order they are made: its tags, then its body
RulesOfDoc(k) ==
    [p \in 1..Len(DocFact(k).tags) |-> TagRule(DocFact(k).tags[p], DocFact(k))]
        \o <<BodyRule(DocFact(k))>>

\* the rules made from the first n entries, in the order they are made, repeats included
RECURSIVE RulesMadeUpTo(_)
RulesMadeUpTo(n) ==
    IF n = 0 THEN <<>>
    ELSE IF n \in Kept THEN RulesMadeUpTo(n - 1) \o RulesOfDoc(n) ELSE RulesMadeUpTo(n - 1)

ReadFailure == {"readdir failed", "read failed"}

AllRead == i > Len(files) /\ files = [k \in 1..Len(dir) |-> dir[k].name]

\* C7: a pass whose listing or whose read of a document fails leaves its
\* output file as it was; an output file changes only in the step after the
\* last document of the pass was read, and a completed write holds the facts
\* (the rules) of every kept document of the directory.
C7_AllOrNothing ==
    /\ [][(factsLog' # factsLog /\ factsLog' \in ReadFailure) => factsFile' = factsFile]_vars
    /\ [][(rulesLog' # rulesLog /\ rulesLog' \in ReadFailure) => rulesFile' = rulesFile]_vars
    /\ [][factsFile' # factsFile => (pc = "facts_loop" /\ AllRead)]_vars
    /\ [][rulesFile' # rulesFile => (pc = "rules_loop" /\ AllRead)]_vars
    /\ [](factsFile.state = "written" => factsFile.data = FactsUpTo(Len(dir)))
    /\ [](rulesFile.state = "written" =>
              Elems(rulesFile.data) = Elems(RulesMadeUpTo(Len(dir))))

\* the second document could not be read after the first was parsed:
\* facts.json is as it was before the run
C7_Witness ==
    /\ factsLog = "read failed"
    /\ i = 2
    /\ Len(facts) = 1
    /\ factsFile = Old

\* C9: when two executions in a row both succeed on the same directory, the
\* second leaves facts.json and rules.json exactly as the first left them.
C9_Idempotent ==
    (pc = "done" /\ prevOut.ok /\ Succeeded) =>
        /\ factsFile = prevOut.factsFile
        /\ rulesFile = prevOut.rulesFile

\* a second successful execution over a directory with two kept documents
C9_Witness ==
    /\ pc = "done"
    /\ run = 2
    /\ prevOut.ok
    /\ Succeeded
    /\ Len(factsFile.data) = 2
    /\ Len(rulesFile.data) >= 2

\* C10: the written rules are the rules in the order they were first made:
\* documents in listing order, each document's tag-match rules in its tag
\* order and then its body-match rule, a rule made again staying where it
\* was first put and appearing once.
C10_FirstInsertionOrder ==
    rulesFile.state = "written" =>
        LET made == RulesMadeUpTo(Len(dir))
            out == rulesFile.data
        IN /\ Elems(out) = Elems(made)
           /\ \A p, q \in 1..Len(out) : p # q => out[p] # out[q]
           /\ \A p, q \in 1..Len(out) :
                  p < q => FirstIdx(made, out[p]) < FirstIdx(made, out[q])

\* the rules of a two-tag document written, every one of them made a second
\* time by the next file
C10_Witness ==
    /\ rulesFile.state = "written"
    /\ Kept = {1, 2}
    /\ Len(RulesMadeUpTo(2)) = 6
    /\ Len(rulesFile.data) = 3
    /\ rulesFile.data[1].conditions = [in |-> << <<"y">>, "var:tags" >>]
    /\ rulesFile.data[3].event.type = "bodyMatch"

-----------------------------------------------------------------------------
(* Claim about the main script, checked under FairSpec *)

InFactsPass == pc \in {"facts_readdir", "facts_loop"}
InRulesPass == pc \in {"rules_readdir", "rules_loop"}

\* C8: the rules pass starts only once the facts pass has logged its outcome,
\* and it starts after a failed facts pass as after a successful one; no step
\* of one pass changes the other pass's output file; every execution ends
\* with both passes attempted.
C8_PassesIsolatedAndSequential ==
    /\ []((InRulesPass \/ pc = "done") => factsLog # "")
    /\ [][(InFactsPass /\ factsLog' # factsLog) => pc' = "rules_readdir"]_vars
    /\ [][InFactsPass => rulesFile' = rulesFile]_vars
    /\ [][InRulesPass => factsFile' = factsFile]_vars
    /\ [](pc = "done" => (factsLog # "" /\ rulesLog # ""))
    /\ (pc = "facts_readdir") ~> (pc = "done")

\* the script ended with the facts pass failed on a read, facts.json untouched
\* and the rules written
C8_Witness ==
    /\ pc = "done"
    /\ factsLog = "read failed"
    /\ factsFile = Old
    /\ rulesLog = "generated"
    /\ rulesFile.state = "written"
    /\ Len(rulesFile.data) >= 2

====
